---- MODULE Spec2Model ----
(***************************************************************************)
(* The Bestory: StoriesController (thebestory/app/controllers/api/         *)
(* stories.py) over the tables it reads and writes.                        *)
(*                                                                         *)
(* A nullable value (a column that may be NULL, a Python value that may be *)
(* None) is a sequence of length 0 (NULL / None) or 1.                     *)
(* A string is the sequence of its characters, a character being its value *)
(* as a base-36 digit (0..35); 36 stands for any other character.          *)
(***************************************************************************)
EXTENDS Integers, Sequences, FiniteSets, TLC

VARIABLES
    stories,      \* table stories: id -> row
    topics,       \* table topics: id -> row
    users,        \* table users: id -> row
    story_likes,  \* table story_likes: the rows in insertion order
    comments,     \* table comments: id -> row
    now,          \* the clock datetime.utcnow() reads; every reading is later than
                  \* the one before, so no two events share a timestamp
    pc,           \* per in-flight like/unlike request: where its coroutine is suspended
    local,        \* per in-flight like/unlike request: its local variables
    hist,         \* the completed like/unlike requests, in order of completion, each
                  \* with the counters as they stood when it began and when it ended
    response      \* the last response a handler returned (or the exception that left it)

vars == <<stories, topics, users, story_likes, comments, now, pc, local, hist, response>>

db == <<stories, topics, users, story_likes, comments, now>>

----------------------------------------------------------------------------
(* Bounds of the model *)

\* like/unlike requests served in one behaviour
MaxRequests == 3

\* story rows a behaviour may end with (submit inserts rows)
MaxStories == 5

\* story rows of the database the listings read
NStories == 3

\* comment rows of the initial database
NComments == 3

\* the concurrent request slots (coroutines the server runs at once)
Procs == {1, 2}

----------------------------------------------------------------------------
(* Program constants *)

ANONYMOUS_USER_ID == 5

THEBESTORY_USER_ID == 2

\* listing.Listing(1, 100, 25): minimum, maximum and default page size
ListingMin == 1

ListingMax == 100

ListingDefault == 25

\* stories.c.content.type.length, the declared length of the content column
ContentMaxLength == 2

None == <<>>

Some(x) == <<x>>

----------------------------------------------------------------------------
(* identifier.from36 / identifier.to36 *)

ValidToken(t) == Len(t) > 0 /\ \A i \in 1..Len(t) : t[i] \in 0..35

RECURSIVE TokenValue(_)
TokenValue(t) ==
    IF t = <<>> THEN 0
    ELSE TokenValue(SubSeq(t, 1, Len(t) - 1)) * 36 + t[Len(t)]

\* None stands for the ValueError the handlers catch
from36(t) == IF ValidToken(t) THEN Some(TokenValue(t)) ELSE None

RECURSIVE to36(_)
to36(n) == IF n < 36 THEN <<n>> ELSE to36(n \div 36) \o <<n % 36>>

----------------------------------------------------------------------------
(* Response envelope: thebestory.app.lib.api.response ok / warning / error *)

ok(data) == [envelope |-> "ok", code |-> 0, data |-> data]

warning(code, data) == [envelope |-> "warning", code |-> code, data |-> data]

error(code) == [envelope |-> "error", code |-> code, data |-> <<>>]

\* web.Response(status=..., text=json.dumps(body)), kept with the request it answers
Response(handler, request, status, body) ==
    [handler |-> handler, request |-> request, status |-> status,
     envelope |-> body.envelope, code |-> body.code, data |-> body.data,
     raised |-> "none"]

\* an exception no except clause of the handler catches: it leaves the handler,
\* and no body of the handler's making is sent
Raised(handler, request, what) ==
    [handler |-> handler, request |-> request, status |-> 500,
     envelope |-> "none", code |-> 0, data |-> <<>>, raised |-> what]

NoResponse ==
    [handler |-> "none", request |-> <<>>, status |-> 0,
     envelope |-> "none", code |-> 0, data |-> <<>>, raised |-> "none"]

----------------------------------------------------------------------------
(* Like / unlike: StoriesController._like                                   *)

\* select([story_likes]).where(user_id == ANONYMOUS_USER_ID)
\*     .where(story_id == story.id): the rows the query matches
LikeRows(id) ==
    {i \in 1..Len(story_likes) :
        /\ story_likes[i].user_id = ANONYMOUS_USER_ID
        /\ story_likes[i].story_id = id}

\* ... .order_by(story_likes.c.timestamp.desc()), fetchrow: a row of the greatest
\* timestamp (any of them when several rows share it), None when no row matches
LatestLikes(id) ==
    IF LikeRows(id) = {} THEN {None}
    ELSE {Some(story_likes[i]) : i \in
            {j \in LikeRows(id) :
                \A k \in LikeRows(id) :
                    story_likes[k].timestamp <= story_likes[j].timestamp}}

\* story s is approved and not removed
Visible(s) ==
    s \in DOMAIN stories /\ stories[s].is_approved /\ ~stories[s].is_removed

\* select([stories]).where(stories.c.id == id), fetchrow
FetchStory(id) == IF id \in DOMAIN stories THEN Some(stories[id]) ELSE None

\* the rows among them that record a like (state = true)
TrueRows(id) == {i \in LikeRows(id) : story_likes[i].state}

MustWriteAlways(like, state) == TRUE

DiffAlwaysUp(state) == 1

\* if like is None or like.state != state
MustWrite(like, state) == like = None \/ like[1].state # state

\* diff = 1 if state is True else -1
Diff(state) == IF state THEN 1 ELSE -1

\* the locals of a request slot that serves no request; solo tells whether the
\* request has overlapped no other request so far
LocalIdle ==
    [tok |-> <<>>, id |-> 0, state |-> FALSE, prior |-> None, solo |-> TRUE,
     pre |-> 0, upre |-> 0, evpre |-> 0, tpre |-> 0, wrote |-> FALSE]

InFlight == {q \in Procs : pc[q] # "idle"}

\* the record of a completed request kept in hist
Completed(l, status, code) ==
    [id |-> l.id, state |-> l.state, status |-> status, code |-> code,
     prior |-> l.prior, solo |-> l.solo, wrote |-> l.wrote,
     pre |-> l.pre, upre |-> l.upre, evpre |-> l.evpre, tpre |-> l.tpre,
     post |-> IF l.id \in DOMAIN stories THEN stories[l.id].likes_count ELSE 0,
     upost |-> users[ANONYMOUS_USER_ID].likes_count,
     evpost |-> Cardinality(LikeRows(l.id)),
     tpost |-> Cardinality(TrueRows(l.id))]

LikeData(like) ==
    <<[user_id |-> like.user_id, story_id |-> like.story_id,
       state |-> like.state, timestamp |-> like.timestamp]>>

\* _like up to its first suspension inside the handler's logic: the id is parsed
\* and the story row fetched
_like(p, tok, state) ==
    /\ pc[p] = "idle"
    /\ \A q \in Procs : q < p => pc[q] # "idle"   \* the first free slot takes it
    /\ Len(hist) + Cardinality(InFlight) < MaxRequests
    /\ LET id    == from36(tok)
           story == IF id = None THEN None ELSE FetchStory(id[1])
           name  == IF state THEN "like" ELSE "unlike"
       IN  IF id = None
           THEN /\ response' = Response(name, tok, 400, error(2003))
                /\ hist' = Append(hist,
                      [Completed(LocalIdle, 400, 2003) EXCEPT
                          !.state = state, !.solo = (InFlight = {})])
                /\ UNCHANGED <<pc, local>>
           ELSE IF story = None \/ story[1].is_removed \/ ~story[1].is_approved
           THEN /\ response' = Response(name, tok, 404, error(2003))
                /\ hist' = Append(hist,
                      [Completed(LocalIdle, 404, 2003) EXCEPT
                          !.id = id[1], !.state = state, !.solo = (InFlight = {})])
                /\ UNCHANGED <<pc, local>>
           ELSE /\ pc' = [pc EXCEPT ![p] = "fetch_like"]
                /\ local' =
                     [q \in Procs |->
                        IF q = p
                        THEN [tok |-> tok, id |-> id[1], state |-> state,
                              prior |-> None,
                              solo |-> (InFlight = {}),
                              pre |-> story[1].likes_count,
                              upre |-> users[ANONYMOUS_USER_ID].likes_count,
                              evpre |-> Cardinality(LikeRows(id[1])),
                              tpre |-> Cardinality(TrueRows(id[1])),
                              wrote |-> FALSE]
                        ELSE IF pc[q] # "idle"
                             THEN [local[q] EXCEPT !.solo = FALSE]
                             ELSE local[q]]
                /\ UNCHANGED <<hist, response>>
    /\ UNCHANGED db

\* async def like(self, request)
like(p, tok) == _like(p, tok, TRUE)

\* async def unlike(self, request)
unlike(p, tok) == _like(p, tok, FALSE)

\* the second query of the first connection block: the latest like event; when
\* it already has the requested state the handler answers with it at once
_like_fetch_like(p) ==
    /\ pc[p] = "fetch_like"
    /\ \E row \in LatestLikes(local[p].id) :
         LET l == [local[p] EXCEPT
                      !.prior = IF row = None THEN None ELSE Some(row[1].state)]
         IN  IF MustWrite(row, l.state)
             THEN /\ pc' = [pc EXCEPT ![p] = "transaction"]
                  /\ local' = [local EXCEPT ![p] = l]
                  /\ UNCHANGED <<hist, response>>
             ELSE /\ pc' = [pc EXCEPT ![p] = "idle"]
                  /\ local' = [local EXCEPT ![p] = LocalIdle]
                  /\ hist' = Append(hist, Completed(l, 201, 0))
                  /\ response' =
                        Response(IF l.state THEN "like" ELSE "unlike", l.tok, 201,
                                 ok(LikeData(row[1])))
    /\ UNCHANGED db

\* (a transaction that looks at the latest event again and writes only when that
\* still differs from the requested state)
_like_transaction_rereading(p) ==
    /\ pc[p] = "transaction"
    /\ LET l == local[p] IN
       \E row \in LatestLikes(l.id) :
          IF row = None \/ row[1].state # l.state
          THEN /\ story_likes' = Append(story_likes,
                      [user_id |-> ANONYMOUS_USER_ID, story_id |-> l.id,
                       state |-> l.state, timestamp |-> now])
               /\ now' = now + 1
               /\ stories' = [stories EXCEPT
                      ![l.id].likes_count = stories[l.id].likes_count + (IF l.state THEN 1 ELSE -1)]
               /\ users' = [users EXCEPT
                      ![ANONYMOUS_USER_ID].likes_count =
                          users[ANONYMOUS_USER_ID].likes_count + (IF l.state THEN 1 ELSE -1)]
               /\ local' = [local EXCEPT ![p].wrote = TRUE]
          ELSE UNCHANGED <<story_likes, now, stories, users, local>>
    /\ pc' = [pc EXCEPT ![p] = "reread"]
    /\ UNCHANGED <<topics, comments, hist, response>>

\* (a transaction that commits the insert and the update of the user's counter
\* and leaves the story's likes_count as it was)
_like_transaction_uncounted(p) ==
    /\ pc[p] = "transaction"
    /\ LET l == local[p] IN
       /\ story_likes' = Append(story_likes,
              [user_id |-> ANONYMOUS_USER_ID, story_id |-> l.id,
               state |-> l.state, timestamp |-> now])
       /\ now' = now + 1
       /\ users' = [users EXCEPT
              ![ANONYMOUS_USER_ID].likes_count =
                  users[ANONYMOUS_USER_ID].likes_count + Diff(l.state)]
       /\ local' = [local EXCEPT ![p].wrote = TRUE]
    /\ pc' = [pc EXCEPT ![p] = "reread"]
    /\ UNCHANGED <<stories, topics, comments, hist, response>>

\* async with request.db.transaction(): the insert and the two counter updates,
\* committed together
_like_transaction(p) ==
    /\ pc[p] = "transaction"
    /\ LET l == local[p] IN
       /\ story_likes' = Append(story_likes,
              [user_id |-> ANONYMOUS_USER_ID, story_id |-> l.id,
               state |-> l.state, timestamp |-> now])
       /\ now' = now + 1
       /\ stories' = [stories EXCEPT
              ![l.id].likes_count = stories[l.id].likes_count + Diff(l.state)]
       /\ users' = [users EXCEPT
              ![ANONYMOUS_USER_ID].likes_count =
                  users[ANONYMOUS_USER_ID].likes_count + Diff(l.state)]
       /\ local' = [local EXCEPT ![p].wrote = TRUE]
    /\ pc' = [pc EXCEPT ![p] = "reread"]
    /\ UNCHANGED <<topics, comments, hist, response>>

\* the confirming query after the transaction, and the response
_like_reread(p) ==
    /\ pc[p] = "reread"
    /\ \E row \in LatestLikes(local[p].id) :
         LET l    == local[p]
             name == IF l.state THEN "like" ELSE "unlike"
         IN  IF row = None
             THEN /\ hist' = Append(hist, Completed(l, 500, 1006))
                  /\ response' = Response(name, l.tok, 500, error(1006))
             ELSE /\ hist' = Append(hist, Completed(l, 201, 0))
                  /\ response' = Response(name, l.tok, 201, ok(LikeData(row[1])))
    /\ pc' = [pc EXCEPT ![p] = "idle"]
    /\ local' = [local EXCEPT ![p] = LocalIdle]
    /\ UNCHANGED db

----------------------------------------------------------------------------
(* The database the like/unlike requests start from *)

StoryRow(topic, likes, approved, removed, published) ==
    [topic_id |-> topic, author_id |-> ANONYMOUS_USER_ID, content |-> <<10>>,
     likes_count |-> likes, comments_count |-> 0,
     is_approved |-> approved, is_removed |-> removed,
     submitted_date |-> 0, published_date |-> published]

TopicRow(n) == [stories_count |-> n]

UserRow(nstories, nlikes) == [stories_count |-> nstories, likes_count |-> nlikes]

\* the tokens a like/unlike request may carry: stories 1 and 2, and "-"
LikeTokens == {<<1>>, <<2>>, <<36>>}

\* likes_count of the stories before any request is served
InitialLikes == [i \in {1, 2} |-> IF i = 1 THEN 2 ELSE 0]

Init ==
    /\ \E approved, removed \in BOOLEAN :
         stories = [i \in {1, 2} |->
            IF i = 1 THEN StoryRow(1, InitialLikes[1], TRUE, FALSE, Some(1))
            ELSE StoryRow(1, InitialLikes[2], approved, removed,
                          IF approved THEN Some(2) ELSE None)]
    /\ topics = [i \in {1} |-> TopicRow(2)]
    /\ users = [i \in {ANONYMOUS_USER_ID, THEBESTORY_USER_ID} |-> UserRow(0, 0)]
    /\ story_likes \in
         {<<>>, <<[user_id |-> THEBESTORY_USER_ID, story_id |-> 1,
                   state |-> TRUE, timestamp |-> 0]>>}
    /\ comments = <<>>
    /\ now = 1
    /\ pc = [p \in Procs |-> "idle"]
    /\ local = [p \in Procs |-> LocalIdle]
    /\ hist = <<>>
    /\ response = NoResponse

Next ==
    \/ \E p \in Procs, tok \in LikeTokens : like(p, tok)
    \/ \E p \in Procs, tok \in LikeTokens : unlike(p, tok)
    \/ \E p \in Procs : _like_fetch_like(p)
    \/ \E p \in Procs : _like_transaction(p)
    \/ \E p \in Procs : _like_reread(p)

Spec == Init /\ [][Next]_vars

----------------------------------------------------------------------------
(* Story submission: StoriesController.submit                               *)

\* int(x) of a string or of a JSON number literal: None stands for ValueError
RECURSIVE DecimalValue(_)
DecimalValue(t) ==
    IF t = <<>> THEN 0
    ELSE DecimalValue(SubSeq(t, 1, Len(t) - 1)) * 10 + t[Len(t)]

ParseInt(t) ==
    IF Len(t) > 0 /\ \A i \in 1..Len(t) : t[i] \in 0..9
    THEN Some(DecimalValue(t)) ELSE None

\* a JSON value of the body: tag is the JSON type ("missing" when the key is
\* absent), text the characters of a string or the digits of a number
Field(tag, text) == [tag |-> tag, text |-> text]

TopicFields ==
    {Field("missing", <<>>), Field("null", <<>>),
     Field("number", <<1>>), Field("number", <<7>>),
     Field("string", <<1>>), Field("string", <<10, 11>>)}

ContentFields ==
    {Field("missing", <<>>), Field("null", <<>>), Field("number", <<4>>)}
    \cup {Field("string", [i \in 1..n |-> 10]) : n \in 0..(ContentMaxLength + 1)}

\* what await request.json() gives: "invalid" is a body that is not JSON (json
\* raises a ValueError), "array" a JSON value that is not an object
Bodies ==
    {[kind |-> k, topic |-> Field("missing", <<>>), content |-> Field("missing", <<>>)] :
        k \in {"invalid", "array"}}
    \cup {[kind |-> "object", topic |-> t, content |-> c] :
            t \in TopicFields, c \in ContentFields}

\* select([topics]).where(topics.c.id == topic_id), fetchrow
FetchTopic(id) == IF id \in DOMAIN topics THEN Some(topics[id]) ELSE None

\* the id the insert gives the new row
NextStoryId == Cardinality(DOMAIN stories) + 1

\* update(users).where(users.c.id == ANONYMOUS_USER_ID)
\*     .values(stories_count=topics.c.stories_count + 1)
\* The value names a column of topics in an UPDATE of users. The statement is
\* either rejected by the database (topics is no table of the statement), or
\* evaluated against a row of topics joined in: both outcomes are kept.
\* tt is the topics table as the transaction has left it.
UsersStoriesCountOutcomes(tt) ==
    {[rejected |-> TRUE, value |-> 0]}
    \cup {[rejected |-> FALSE, value |-> tt[t].stories_count + 1] : t \in DOMAIN tt}

SubmitData(id, story, topic_id, topic) ==
    <<[id |-> to36(id),
       topic |-> [id |-> topic_id, stories_count |-> topic.stories_count],
       content |-> story.content,
       likes_count |-> story.likes_count,
       comments_count |-> story.comments_count,
       submitted_date |-> story.submitted_date,
       published_date |-> None]>>

\* async with request.db.transaction() of submit, and the response after it
submit_transaction(body, topic_id, topic) ==
    LET story == [topic_id |-> topic_id, author_id |-> ANONYMOUS_USER_ID,
                  content |-> body.content.text,
                  likes_count |-> 0, comments_count |-> 0,
                  is_approved |-> FALSE, is_removed |-> FALSE,
                  submitted_date |-> now, published_date |-> None]
        id    == NextStoryId
        tt    == [topics EXCEPT
                    ![topic_id].stories_count = topics[topic_id].stories_count + 1]
    IN  \E o \in UsersStoriesCountOutcomes(tt) :
          IF o.rejected
          THEN \* the exception leaves the transaction block: rollback
               /\ response' = Raised("submit", body, "DatabaseError")
               /\ UNCHANGED <<stories, topics, users, now>>
          ELSE /\ stories' = [i \in DOMAIN stories \cup {id} |->
                                IF i = id THEN story ELSE stories[i]]
               /\ topics' = tt
               /\ users' = [users EXCEPT
                              ![ANONYMOUS_USER_ID].stories_count = o.value]
               /\ now' = now + 1
               /\ response' = Response("submit", body, 201,
                                       ok(SubmitData(id, story, topic_id, topic)))

submit(body) ==
    /\ Cardinality(DOMAIN stories) < MaxStories
    /\ LET topic_id == ParseInt(body.topic.text)
           length   == Len(body.content.text)
       IN
       IF body.kind = "invalid"
       THEN \* request.json() raises ValueError
            /\ response' = Response("submit", body, 400, error(2002))
            /\ UNCHANGED db
       ELSE IF body.kind # "object"
       THEN \* body["topic"] raises TypeError
            /\ response' = Raised("submit", body, "TypeError")
            /\ UNCHANGED db
       ELSE IF body.topic.tag = "missing"
       THEN \* body["topic"] raises KeyError
            /\ response' = Response("submit", body, 400, error(2002))
            /\ UNCHANGED db
       ELSE IF body.topic.tag = "null"
       THEN \* int(None) raises TypeError
            /\ response' = Raised("submit", body, "TypeError")
            /\ UNCHANGED db
       ELSE IF topic_id = None
       THEN \* int("ab") raises ValueError
            /\ response' = Response("submit", body, 400, error(2002))
            /\ UNCHANGED db
       ELSE IF body.content.tag = "missing"
       THEN \* body["content"] raises KeyError
            /\ response' = Response("submit", body, 400, error(2002))
            /\ UNCHANGED db
       ELSE IF body.content.tag # "string"
       THEN \* len(content) raises TypeError
            /\ response' = Raised("submit", body, "TypeError")
            /\ UNCHANGED db
       ELSE IF length <= 0
       THEN /\ response' = Response("submit", body, 400, error(5004))
            /\ UNCHANGED db
       ELSE IF length > ContentMaxLength
       THEN /\ response' = Response("submit", body, 400, error(5006))
            /\ UNCHANGED db
       ELSE IF FetchTopic(topic_id[1]) = None
       THEN /\ response' = Response("submit", body, 400, error(2002))
            /\ UNCHANGED db
       ELSE /\ submit_transaction(body, topic_id[1], FetchTopic(topic_id[1])[1])
            /\ UNCHANGED <<story_likes, comments>>
    /\ UNCHANGED <<pc, local, hist>>

InitSubmit ==
    /\ stories = [i \in {1, 2} |->
          IF i = 1 THEN StoryRow(1, 2, TRUE, FALSE, Some(1))
          ELSE StoryRow(2, 0, FALSE, FALSE, None)]
    /\ \E a \in {0, 1}, b \in {1, 3} :
          topics = [i \in {1, 2} |-> IF i = 1 THEN TopicRow(a) ELSE TopicRow(b)]
    /\ \E u \in {0, 2} :
          users = [i \in {ANONYMOUS_USER_ID, THEBESTORY_USER_ID} |-> UserRow(u, 0)]
    /\ story_likes = <<>>
    /\ comments = <<>>
    /\ now = 1
    /\ pc = [p \in Procs |-> "idle"]
    /\ local = [p \in Procs |-> LocalIdle]
    /\ hist = <<>>
    /\ response = NoResponse

NextSubmit == \E body \in Bodies : submit(body)

SpecSubmit == InitSubmit /\ [][NextSubmit]_vars

----------------------------------------------------------------------------
(* Query results                                                            *)

Min(a, b) == IF a < b THEN a ELSE b

\* .order_by(comments.c.likes_count.desc())
MoreLiked(a, b) == comments[a].likes_count >= comments[b].likes_count

\* .order_by(stories.c.published_date.desc()): a NULL sorts before every date
LaterPublished(a, b) ==
    \/ stories[a].published_date = None
    \/ /\ stories[b].published_date # None
       /\ stories[a].published_date[1] >= stories[b].published_date[1]

\* .order_by(stories.c.likes_count.desc())
MoreLikedStory(a, b) == stories[a].likes_count >= stories[b].likes_count

\* whether the order_by of the query lets row a come before row b;
\* .order_by(func.random()) lets any row come before any other
Precedes(order, a, b) ==
    CASE order = "comments.likes_count" -> MoreLiked(a, b)
      [] order = "stories.published_date" -> LaterPublished(a, b)
      [] order = "stories.likes_count" -> MoreLikedStory(a, b)
      [] order = "random" -> TRUE

\* The results a query with ORDER BY and LIMIT may give over the rows S:
\* a sequence of n = min(limit, |S|) different rows, each row placed before
\* the rows the order lets it precede, and no row left out that had to come
\* before one that is in. Rows the order does not tell apart come in any order.
OrderedFetches(S, order, limit) ==
    LET n == Min(limit, Cardinality(S)) IN
    {q \in [1..n -> S] :
        /\ \A i, j \in 1..n : i < j => q[i] # q[j] /\ Precedes(order, q[i], q[j])
        /\ \A x \in S :
              (\A i \in 1..n : q[i] # x) => \A i \in 1..n : Precedes(order, q[i], x)}

----------------------------------------------------------------------------
(* Story detail and comments: StoriesController.details, .comments          *)

GateUnapprovedFirst(story) ==
    IF story = None THEN 404
    ELSE IF ~story[1].is_approved THEN 403
    ELSE IF story[1].is_removed THEN 404
    ELSE 200

\* if story is None or story.is_removed: 404 ... if not story.is_approved: 403
\* (the same two checks open details and comments); 200 lets the handler go on
Gate(story) ==
    IF story = None \/ story[1].is_removed THEN 404
    ELSE IF ~story[1].is_approved THEN 403
    ELSE 200

\* The handlers below only read the database. One is taken when the response
\* before it has gone to the client (next_request), so that response always
\* holds the answer to the request it names.

DetailsData(id, story, topic) ==
    <<[id |-> to36(id),
       topic |-> IF topic = None THEN [id |-> story.topic_id, stories_count |-> 0]
                 ELSE [id |-> story.topic_id,
                       stories_count |-> topic[1].stories_count],
       content |-> story.content,
       likes_count |-> story.likes_count,
       comments_count |-> story.comments_count,
       published_date |-> story.published_date[1]]>>

details(tok) ==
    /\ response.handler = "none"
    /\ LET id    == from36(tok)
           story == IF id = None THEN None ELSE FetchStory(id[1])
       IN
       IF id = None
       THEN response' = Response("details", tok, 400, error(2003))
       ELSE IF Gate(story) = 404
       THEN response' = Response("details", tok, 404, error(2003))
       ELSE IF Gate(story) = 403
       THEN response' = Response("details", tok, 403, error(4001))
       ELSE IF story[1].published_date = None
       THEN \* story.published_date.isoformat() on None
            response' = Raised("details", tok, "AttributeError")
       ELSE LET topic == FetchTopic(story[1].topic_id) IN
            IF topic # None
            THEN response' = Response("details", tok, 200,
                                      ok(DetailsData(id[1], story[1], topic)))
            ELSE response' = Response("details", tok, 200,
                                      warning(2002, DetailsData(id[1], story[1], topic)))
    /\ UNCHANGED <<db, pc, local, hist>>

\* select([comments, users.c.username]).where(users.c.id == comments.c.author_id)
\*     .where(comments.c.story_id == id): the rows the query matches
CommentRows(id) ==
    {c \in DOMAIN comments :
        /\ comments[c].author_id \in DOMAIN users
        /\ comments[c].story_id = id}

\* the keys of the OrderedDict data
CommentKeys(rows) == {to36(rows[i]) : i \in 1..Len(rows)}

AttachAtFront(lst, c) == <<c>> \o lst

\* data[comment["parent"]["id"]]["comments"].append(comment)
Attach(lst, c) == Append(lst, c)

\* for comment in data.values(): if comment["parent"] is not None: attach it.
\* kids maps each key of data to its "comments" list; None stands for the
\* KeyError of a parent key that is not in data.
RECURSIVE SecondPass(_, _, _)
SecondPass(rows, i, kids) ==
    IF i > Len(rows) THEN Some(kids)
    ELSE LET parent == comments[rows[i]].parent_id IN
         IF parent = None THEN SecondPass(rows, i + 1, kids)
         ELSE IF to36(parent[1]) \notin DOMAIN kids THEN None
         ELSE SecondPass(rows, i + 1,
                 [kids EXCEPT ![to36(parent[1])] = Attach(@, rows[i])])

\* the dict of one comment as json.dumps writes it, its "comments" list nested
RECURSIVE CommentNode(_, _)
CommentNode(c, kids) ==
    [id |-> to36(c),
     parent |-> IF comments[c].parent_id = None THEN None
                ELSE Some(to36(comments[c].parent_id[1])),
     author |-> comments[c].author_id,
     content |-> comments[c].content,
     likes_count |-> comments[c].likes_count,
     comments |-> [k \in 1..Len(kids[to36(c)]) |->
                      CommentNode(kids[to36(c)][k], kids)]]

IsRoot(c) == comments[c].parent_id = None

\* list(filter(lambda c: c["parent"] is None, data.values()))
RootNodes(rows, kids) ==
    LET roots == SelectSeq(rows, IsRoot) IN
    [k \in 1..Len(roots) |-> CommentNode(roots[k], kids)]

comments_(tok) ==
    /\ response.handler = "none"
    /\ LET id    == from36(tok)
           story == IF id = None THEN None ELSE FetchStory(id[1])
       IN
       IF id = None
       THEN response' = Response("comments", tok, 400, error(2003))
       ELSE IF Gate(story) = 404
       THEN response' = Response("comments", tok, 404, error(2003))
       ELSE IF Gate(story) = 403
       THEN response' = Response("comments", tok, 403, error(4001))
       ELSE \E rows \in OrderedFetches(CommentRows(id[1]), "comments.likes_count",
                                       Cardinality(CommentRows(id[1]))) :
              LET kids == SecondPass(rows, 1, [k \in CommentKeys(rows) |-> <<>>]) IN
              IF kids = None
              THEN response' = Raised("comments", tok, "KeyError")
              ELSE response' = Response("comments", tok, 200,
                                        ok(RootNodes(rows, kids[1])))
    /\ UNCHANGED <<db, pc, local, hist>>

\* the client has the response; the next request is taken
next_request ==
    /\ response.handler \in {"details", "comments", "latest", "top", "random"}
    /\ response' = NoResponse
    /\ UNCHANGED <<db, pc, local, hist>>

CommentRow(story, parent, author, likes) ==
    [story_id |-> story, parent_id |-> parent, author_id |-> author,
     content |-> <<12>>, likes_count |-> likes]

\* a story no reader sees (its date and likes are never read), an approved
\* and not removed story with no published_date (the column is nullable), or
\* a published one
StoryProfiles(topic) ==
    {StoryRow(topic, 0, a, r, None) : a, r \in BOOLEAN}
    \cup {StoryRow(topic, n, TRUE, FALSE, d) : n \in {0, 1}, d \in {Some(1), Some(2)}}

\* a comment of story 1, a comment of story 2, a comment of story 1 whose
\* author has no users row (9)
CommentProfiles(i) ==
    {CommentRow(sa[1], parent, sa[2], n) :
        sa \in {<<1, ANONYMOUS_USER_ID>>, <<2, ANONYMOUS_USER_ID>>, <<1, 9>>},
        parent \in {None} \cup {Some(j) : j \in 1..(i - 1)},
        n \in {0, 1}}

TheComments ==
    [i \in 1..3 |-> IF i = 1 THEN CommentRow(1, None, ANONYMOUS_USER_ID, 1)
                    ELSE CommentRow(1, Some(1), ANONYMOUS_USER_ID, i - 2)]

StoryTokens == {<<1>>, <<2>>, <<3>>, <<>>, <<36>>}

\* story 2 is published and its topic has no row; either story 1 varies or
\* the comments do
InitStory ==
    /\ \/ /\ \E s1 \in StoryProfiles(1) :
                stories = [i \in {1, 2} |->
                    IF i = 1 THEN s1 ELSE StoryRow(2, 0, TRUE, FALSE, Some(2))]
          /\ comments = TheComments
       \/ /\ stories = [i \in {1, 2} |-> StoryRow(i, 0, TRUE, FALSE, Some(i))]
          /\ comments \in [1..NComments -> UNION {CommentProfiles(i) : i \in 1..NComments}]
          /\ \A i \in 1..NComments : comments[i] \in CommentProfiles(i)
    /\ topics = [i \in {1} |-> TopicRow(2)]
    /\ users = [i \in {ANONYMOUS_USER_ID, THEBESTORY_USER_ID} |-> UserRow(0, 0)]
    /\ story_likes = <<>>
    /\ now = 1
    /\ pc = [p \in Procs |-> "idle"]
    /\ local = [p \in Procs |-> LocalIdle]
    /\ hist = <<>>
    /\ response = NoResponse

NextStory ==
    \/ \E tok \in StoryTokens : details(tok)
    \/ \E tok \in StoryTokens : comments_(tok)
    \/ next_request

SpecStory == InitStory /\ [][NextStory]_vars

----------------------------------------------------------------------------
(* Listings: listing.Listing.validate and StoriesController.latest, .top,   *)
(* .random                                                                  *)

\* Listing.validate_limit: None stands for the ValueError
validate_limit(limit) ==
    IF limit = None THEN Some(ListingDefault)
    ELSE IF ParseInt(limit[1]) = None THEN None
    ELSE IF ParseInt(limit[1])[1] < ListingMin \/ ParseInt(limit[1])[1] > ListingMax
         THEN None
    ELSE ParseInt(limit[1])

\* Listing.validate: (pivot, limit, direction), None for the ValueError
validate(before, after, limit) ==
    IF before # None /\ after # None THEN None
    ELSE IF validate_limit(limit) = None THEN None
    ELSE IF before # None /\ from36(before[1]) = None THEN None
    ELSE IF after # None /\ from36(after[1]) = None THEN None
    ELSE Some([pivot |-> IF before # None THEN from36(before[1])
                         ELSE IF after # None THEN from36(after[1])
                         ELSE None,
               limit |-> validate_limit(limit)[1],
               direction |-> IF after # None THEN "AFTER" ELSE "BEFORE"])

MatchingSwapped(pivot, direction) ==
    {i \in DOMAIN stories :
        /\ stories[i].is_approved
        /\ ~stories[i].is_removed
        /\ pivot # None =>
              \/ direction = "BEFORE" /\ i < pivot[1]
              \/ direction = "AFTER" /\ i > pivot[1]}

\* .where(is_approved == True).where(is_removed == False), and with a pivot
\* .where(id > pivot) for BEFORE, .where(id < pivot) for AFTER
Matching(pivot, direction) ==
    {i \in DOMAIN stories :
        /\ stories[i].is_approved = TRUE
        /\ stories[i].is_removed = FALSE
        /\ pivot # None =>
              \/ direction = "BEFORE" /\ i > pivot[1]
              \/ direction = "AFTER" /\ i < pivot[1]
              \/ direction \notin {"BEFORE", "AFTER"}}

ListingData(rows) ==
    [k \in 1..Len(rows) |->
        [id |-> to36(rows[k]),
         topic |-> [id |-> stories[rows[k]].topic_id],
         content |-> stories[rows[k]].content,
         likes_count |-> stories[rows[k]].likes_count,
         comments_count |-> stories[rows[k]].comments_count,
         published_date |-> stories[rows[k]].published_date[1]]]

\* text=json.dumps(data): the list itself, in no envelope
BareList(data) == [envelope |-> "none", code |-> 0, data |-> data]

\* for story in await conn.fetch(query): data.append({...})
\* story.published_date.isoformat() raises AttributeError on a NULL date
ListingResponse(handler, q, rows) ==
    IF \E k \in 1..Len(rows) : stories[rows[k]].published_date = None
    THEN Raised(handler, q, "AttributeError")
    ELSE Response(handler, q, 200,
                  IF handler = "random" THEN BareList(ListingData(rows))
                  ELSE ok(ListingData(rows)))

latest(q) ==
    /\ response.handler = "none"
    /\ LET v == validate(q.before, q.after, q.limit) IN
       IF v = None
       THEN response' = Response("latest", q, 400, error(3001))
       ELSE \E rows \in OrderedFetches(Matching(v[1].pivot, v[1].direction),
                                       "stories.published_date", v[1].limit) :
              response' = ListingResponse("latest", q, rows)
    /\ UNCHANGED <<db, pc, local, hist>>

top(q) ==
    /\ response.handler = "none"
    /\ LET v == validate(q.before, q.after, q.limit) IN
       IF v = None
       THEN response' = Response("top", q, 400, error(3001))
       ELSE \E rows \in OrderedFetches(Matching(v[1].pivot, v[1].direction),
                                       "stories.likes_count", v[1].limit) :
              response' = ListingResponse("top", q, rows)
    /\ UNCHANGED <<db, pc, local, hist>>

random(q) ==
    /\ response.handler = "none"
    /\ LET limit == validate_limit(q.limit) IN
       IF limit = None
       THEN response' = Response("random", q, 400, error(3001))
       ELSE \E rows \in OrderedFetches(Matching(None, "BEFORE"), "random", limit[1]) :
              response' = ListingResponse("random", q, rows)
    /\ UNCHANGED <<db, pc, local, hist>>

\* the limit parameters: absent, "0", "1", "2", "100", "101", "ab"
Limits == {None, Some(<<0>>), Some(<<1>>), Some(<<2>>), Some(<<1, 0, 0>>),
           Some(<<1, 0, 1>>), Some(<<10, 11>>)}

ListingQueries ==
    {[before |-> b, after |-> a, limit |-> l] :
        b \in {None, Some(<<1>>), Some(<<36>>)},
        a \in {None, Some(<<3>>)},
        l \in Limits}

RandomQueries == {[before |-> None, after |-> None, limit |-> l] : l \in Limits}

InitListing ==
    /\ stories \in [1..NStories -> StoryProfiles(1)]
    /\ topics = [i \in {1} |-> TopicRow(NStories)]
    /\ users = [i \in {ANONYMOUS_USER_ID, THEBESTORY_USER_ID} |-> UserRow(0, 0)]
    /\ story_likes = <<>>
    /\ comments = <<>>
    /\ now = 1
    /\ pc = [p \in Procs |-> "idle"]
    /\ local = [p \in Procs |-> LocalIdle]
    /\ hist = <<>>
    /\ response = NoResponse

NextListing ==
    \/ \E q \in ListingQueries : latest(q)
    \/ \E q \in ListingQueries : top(q)
    \/ \E q \in RandomQueries : random(q)
    \/ next_request

SpecListing == InitListing /\ [][NextListing]_vars

----------------------------------------------------------------------------
(* Properties of the listings *)

\* the stories a latest/top answer may list: approved, not removed, and past
\* the pivot when there is one
Eligible(v) ==
    {i \in DOMAIN stories :
        /\ stories[i].is_approved /\ ~stories[i].is_removed
        /\ (v.pivot # None /\ v.direction = "BEFORE") => i > v.pivot[1]
        /\ (v.pivot # None /\ v.direction = "AFTER") => i < v.pivot[1]}

\* C8: with valid pagination parameters latest and top return at most limit
\* stories, all approved and not removed, ordered by published_date descending
\* (latest) or likes_count descending (top); with a pivot, BEFORE returns only
\* ids greater than the pivot and AFTER only ids less than it, and without a
\* pivot no story is excluded by its id. A validation failure gives 400 with
\* code 3001 (and nothing fetched).
C8_Listing ==
    response.handler \in {"latest", "top"} =>
        LET q == response.request
            v == validate(q.before, q.after, q.limit)
            data == response.data
            ids == [k \in 1..Len(data) |-> from36(data[k].id)[1]]
        IN
        /\ v = None =>
              /\ response.status = 400 /\ response.code = 3001
              /\ response.envelope = "error" /\ data = <<>>
        /\ v # None => response.status # 400
        /\ (v # None /\ response.status = 200) =>
              /\ Len(data) <= v[1].limit
              /\ \A k \in 1..Len(data) : ids[k] \in Eligible(v[1])
              /\ \A a, b \in 1..Len(data) : a < b => ids[a] # ids[b]
              /\ Len(data) = Min(v[1].limit, Cardinality(Eligible(v[1])))
              /\ \A k \in 1..Len(data) :
                    /\ data[k].likes_count = stories[ids[k]].likes_count
                    /\ Some(data[k].published_date) = stories[ids[k]].published_date
              /\ response.handler = "latest" =>
                    /\ \A a, b \in 1..Len(data) :
                          a < b => data[a].published_date >= data[b].published_date
                    /\ \A i \in Eligible(v[1]) : \A k \in 1..Len(data) :
                          stories[i].published_date[1] > data[k].published_date
                             => \E m \in 1..Len(data) : ids[m] = i
              /\ response.handler = "top" =>
                    /\ \A a, b \in 1..Len(data) :
                          a < b => data[a].likes_count >= data[b].likes_count
                    /\ \A i \in Eligible(v[1]) : \A k \in 1..Len(data) :
                          stories[i].likes_count > data[k].likes_count
                             => \E m \in 1..Len(data) : ids[m] = i

C8_Witness ==
    /\ response.handler = "latest"
    /\ response.status = 200
    /\ response.request.before = Some(<<1>>)
    /\ response.request.limit = Some(<<1>>)
    /\ Len(response.data) = 1
    /\ \E i \in DOMAIN stories :
          /\ Visible(i) /\ i > 1 /\ to36(i) # response.data[1].id
          /\ stories[i].published_date[1] < response.data[1].published_date
    /\ Visible(1)

----------------------------------------------------------------------------
(* Properties of details and comments *)

\* the story id a details/comments response is about
AskedStory == from36(response.request)[1]

AsksStory ==
    /\ response.handler \in {"details", "comments"}
    /\ from36(response.request) # None

\* C3: details and comments answer 404 for a story that does not exist or is
\* removed, whatever is_approved is; 403 with code 4001 (never 404) for a story
\* that exists, is not removed and is not approved; and answer 200, with the
\* story or its comments, only for a story that is approved and not removed.
C3_Visibility ==
    AsksStory =>
        LET id == AskedStory IN
        /\ (id \notin DOMAIN stories \/ stories[id].is_removed) =>
              response.status = 404
        /\ (id \in DOMAIN stories /\ ~stories[id].is_removed
                /\ ~stories[id].is_approved) =>
              /\ response.status = 403
              /\ response.code = 4001
        /\ (response.status = 200 \/ response.data # <<>>) => Visible(id)

C3_Witness ==
    /\ AsksStory
    /\ response.handler = "comments"
    /\ AskedStory \in DOMAIN stories
    /\ stories[AskedStory].is_removed /\ ~stories[AskedStory].is_approved
    /\ response.status = 404

\* how often a comment with public id tok occurs in a returned tree
RECURSIVE CountIn(_, _, _)
CountIn(nodes, k, tok) ==
    IF k > Len(nodes) THEN 0
    ELSE (IF nodes[k].id = tok THEN 1 ELSE 0)
         + CountIn(nodes[k].comments, 1, tok)
         + CountIn(nodes, k + 1, tok)

\* every node of a returned tree
RECURSIVE AllNodes(_)
AllNodes(nodes) ==
    {nodes[k] : k \in 1..Len(nodes)}
    \cup UNION {AllNodes(nodes[k].comments) : k \in 1..Len(nodes)}

\* the fetched comments of story id whose parent is not among them
Orphans(id) ==
    {c \in CommentRows(id) :
        /\ comments[c].parent_id # None
        /\ comments[c].parent_id[1] \notin CommentRows(id)}

LikesDescending(nodes) ==
    \A a, b \in 1..Len(nodes) :
        a < b => nodes[a].likes_count >= nodes[b].likes_count

AsksComments ==
    /\ AsksStory
    /\ response.handler = "comments"
    /\ Visible(AskedStory)

\* C4: when a fetched comment's parent is not in the fetched set, comments does
\* not raise: it answers 200 and the orphan is nowhere in the returned tree.
C4_OrphanDropped ==
    (AsksComments /\ Orphans(AskedStory) # {}) =>
        /\ response.raised = "none"
        /\ response.status = 200
        /\ \A c \in Orphans(AskedStory) : CountIn(response.data, 1, to36(c)) = 0

\* C7: when every fetched comment has its parent in the fetched set, the root
\* level holds exactly the comments without parent; every comment with a parent
\* occurs exactly once in the tree, in the comments list of its parent and not at
\* root level; and every comments list is in likes_count descending order.
C7_CommentTree ==
    (AsksComments /\ Orphans(AskedStory) = {}) =>
        LET rows  == CommentRows(AskedStory)
            roots == {c \in rows : comments[c].parent_id = None}
            data  == response.data
        IN
        /\ response.status = 200 /\ response.envelope = "ok"
        /\ {data[k].id : k \in 1..Len(data)} = {to36(c) : c \in roots}
        /\ Len(data) = Cardinality(roots)
        /\ \A c \in rows \ roots :
              /\ CountIn(data, 1, to36(c)) = 1
              /\ \E n \in AllNodes(data) :
                    /\ n.id = to36(comments[c].parent_id[1])
                    /\ \E k \in 1..Len(n.comments) : n.comments[k].id = to36(c)
        /\ LikesDescending(data)
        /\ \A n \in AllNodes(data) : LikesDescending(n.comments)

C7_Witness ==
    /\ AsksComments /\ Orphans(AskedStory) = {}
    /\ response.status = 200
    /\ \E k \in 1..Len(response.data) :
          /\ Len(response.data[k].comments) = 2
          /\ response.data[k].comments[1].likes_count
                > response.data[k].comments[2].likes_count

----------------------------------------------------------------------------
(* Properties of submit *)

\* valid content and an existing topic
ValidBody(b) ==
    /\ b.kind = "object"
    /\ b.topic.tag = "number"
    /\ ParseInt(b.topic.text) # None
    /\ ParseInt(b.topic.text)[1] \in DOMAIN topics
    /\ b.content.tag = "string"
    /\ Len(b.content.text) \in 1..ContentMaxLength

\* C2: a submit with valid content and an existing topic answers 201 and leaves
\* exactly one new story row (author anonymous, both counters 0, not approved,
\* not removed), the topic's stories_count raised by exactly 1 and the anonymous
\* user's stories_count raised by exactly 1 above its own previous value.
C2_SubmitCounts ==
    [][ (response'.handler = "submit" /\ ValidBody(response'.request)) =>
          LET t == ParseInt(response'.request.topic.text)[1] IN
          /\ response'.status = 201
          /\ \E id \in DOMAIN stories' :
                /\ id \notin DOMAIN stories
                /\ DOMAIN stories' = DOMAIN stories \cup {id}
                /\ \A i \in DOMAIN stories : stories'[i] = stories[i]
                /\ stories'[id].author_id = ANONYMOUS_USER_ID
                /\ stories'[id].likes_count = 0
                /\ stories'[id].comments_count = 0
                /\ ~stories'[id].is_approved
                /\ ~stories'[id].is_removed
          /\ topics'[t].stories_count = topics[t].stories_count + 1
          /\ users'[ANONYMOUS_USER_ID].stories_count =
                users[ANONYMOUS_USER_ID].stories_count + 1
      ]_vars

\* the code the claimed order of checks gives a body, 0 for a body that passes
ClaimedFailure(b) ==
    IF \/ b.kind # "object"
       \/ b.topic.tag \in {"missing", "null"}
       \/ ParseInt(b.topic.text) = None
       \/ b.content.tag # "string"
    THEN 2002
    ELSE IF Len(b.content.text) = 0 THEN 5004
    ELSE IF Len(b.content.text) > ContentMaxLength THEN 5006
    ELSE IF ParseInt(b.topic.text)[1] \notin DOMAIN topics THEN 2002
    ELSE 0

\* C6: submit stops at the first failing check with status 400: a missing or
\* malformed topic or content gives 2002, empty content 5004, content longer than
\* the column 5006, a topic id with no row 2002; and then no story row is
\* inserted and no topic or user counter changes.
C6_ValidationOrder ==
    [][ (response'.handler = "submit" /\ ClaimedFailure(response'.request) # 0) =>
          /\ response'.status = 400
          /\ response'.envelope = "error"
          /\ response'.code = ClaimedFailure(response'.request)
          /\ stories' = stories /\ topics' = topics /\ users' = users
      ]_vars

\* C5: every handler finishes by returning a response whose body is the
\* envelope (status ok, warning or error); no exception leaves a handler.
C5_AlwaysEnvelope ==
    response.handler # "none" =>
        /\ response.raised = "none"
        /\ response.envelope \in {"ok", "warning", "error"}

----------------------------------------------------------------------------
(* Properties of like / unlike *)

\* requests i and j are about story s and no request between them is
NextFor(s, i, j) ==
    /\ i < j
    /\ hist[i].id = s /\ hist[j].id = s
    /\ \A m \in (i + 1)..(j - 1) : hist[m].id # s

\* request i is the first of a run of likes of story s: no request for s came
\* before it, or the one before it was an unlike
FirstOfRun(s, i) ==
    \A m \in 1..(i - 1) : NextFor(s, m, i) => ~hist[m].state

\* every request up to the k-th ran alone, overlapping no other request
Sequential(k) == \A m \in 1..k : hist[m].solo

LikeLikeUnlike(i, j, k) ==
    /\ Sequential(k)
    /\ Visible(hist[i].id)
    /\ NextFor(hist[i].id, i, j) /\ NextFor(hist[i].id, j, k)
    /\ hist[i].state /\ hist[j].state /\ ~hist[k].state
    /\ FirstOfRun(hist[i].id, i)

\* C1: with sequential requests for one approved, non-removed story, a like
\* followed by a second like raises likes_count by exactly 1 in total and appends
\* exactly one event, a like (the second request appends nothing and changes no
\* counter), and the unlike that follows lowers likes_count by exactly 1, back to
\* its value before the first like.
C1_LikeTwiceThenUnlike ==
    \A i, j, k \in 1..Len(hist) :
        LikeLikeUnlike(i, j, k) =>
            /\ hist[i].status = 201 /\ hist[j].status = 201 /\ hist[k].status = 201
            /\ hist[j].post = hist[i].pre + 1
            /\ hist[j].evpost = hist[i].evpre + 1
            /\ hist[j].tpost = hist[i].tpre + 1
            /\ ~hist[j].wrote
            /\ hist[j].post = hist[j].pre /\ hist[j].upost = hist[j].upre
            /\ hist[j].evpost = hist[j].evpre
            /\ hist[k].post = hist[k].pre - 1
            /\ hist[k].post = hist[i].pre

C1_Witness ==
    \E i, j, k \in 1..Len(hist) :
        LikeLikeUnlike(i, j, k) /\ hist[k].status = 201 /\ hist[k].wrote

\* C9: two like requests for the same story that both read "no event" before
\* either wrote both append a like event and both add 1 to likes_count: once the
\* second has answered there are two like events, and when these are the only
\* events of the story likes_count stands 2 above its value at the requests' start.
C9_BothAppend ==
    \A i, j \in 1..Len(hist) :
        ( /\ i < j
          /\ hist[i].id = hist[j].id
          /\ hist[i].status = 201 /\ hist[j].status = 201
          /\ hist[i].state /\ hist[j].state
          /\ hist[i].prior = None /\ hist[j].prior = None )
        => /\ hist[i].wrote /\ hist[j].wrote
           /\ hist[j].tpost >= 2
           /\ hist[j].evpost = 2 =>
                 /\ hist[j].post = hist[i].pre + 2
                 /\ hist[j].post = hist[j].pre + 2

\* two like events of the anonymous user for story s with no event of that
\* user and story between them
TwoLikesInARow(s) ==
    \E a, b \in LikeRows(s) :
        /\ a < b
        /\ story_likes[a].state /\ story_likes[b].state
        /\ \A c \in LikeRows(s) : ~(a < c /\ c < b)

C9_Witness ==
    \E i, j \in 1..Len(hist) :
        /\ i < j
        /\ hist[i].id = hist[j].id
        /\ hist[i].state /\ hist[j].state
        /\ hist[i].prior = None /\ hist[j].prior = None
        /\ hist[j].evpost = 2
        /\ hist[j].post = hist[i].pre + 2
        /\ TwoLikesInARow(hist[j].id)
        /\ stories[hist[j].id].likes_count = hist[i].pre + 2

\* C10: an unlike request (overlapping no other request) for an approved,
\* non-removed story for which the user has no like event is answered 201 after
\* appending one event with state = false and lowering the story's likes_count
\* and the user's likes counter by 1 each.
C10_UnlikeWithoutLike ==
    \A i \in 1..Len(hist) :
        ( /\ hist[i].solo
          /\ ~hist[i].state
          /\ Visible(hist[i].id)
          /\ hist[i].evpre = 0 )
        => /\ hist[i].status = 201
           /\ hist[i].wrote
           /\ hist[i].evpost = 1 /\ hist[i].tpost = 0
           /\ hist[i].post = hist[i].pre - 1
           /\ hist[i].upost = hist[i].upre - 1

\* ... so likes_count stands below the value it had before any like event existed
C10_Witness ==
    \E i \in 1..Len(hist) :
        /\ hist[i].solo /\ ~hist[i].state /\ Visible(hist[i].id)
        /\ hist[i].evpre = 0 /\ LikeRows(hist[i].id) # {}
        /\ \A m \in 1..(i - 1) : hist[m].id # hist[i].id
        /\ stories[hist[i].id].likes_count < hist[i].pre

\* the events of story s the requests have appended with the given state (the
\* database starts with no event of the anonymous user, and requests append
\* events of no other user)
Appended(s, state) == {i \in LikeRows(s) : story_likes[i].state = state}

\* for each story, the change of likes_count since the initial state is the
\* number of appended like events minus the number of appended unlike events
CountersFollowEvents ==
    \A s \in DOMAIN stories :
        stories[s].likes_count - InitialLikes[s] =
            Cardinality(Appended(s, TRUE)) - Cardinality(Appended(s, FALSE))

\* a request that has answered 201 without appending an event and overlapped no
\* other request found the counters, on answering, as they were when it began
\* (a request answered 400 or 404 is one step, which StepKeepsCounters covers)
NoEventNoChange ==
    \A i \in 1..Len(hist) :
        (hist[i].solo /\ ~hist[i].wrote /\ hist[i].status = 201) =>
            /\ hist[i].post = hist[i].pre
            /\ hist[i].upost = hist[i].upre
            /\ hist[i].evpost = hist[i].evpre

\* a step in which no event is appended changes no counter, and a step that
\* appends events appends one, to the end, leaving the earlier ones as they were
StepKeepsCounters ==
    /\ story_likes' = story_likes =>
          /\ \A s \in DOMAIN stories : stories'[s].likes_count = stories[s].likes_count
          /\ \A u \in DOMAIN users : users'[u].likes_count = users[u].likes_count
    /\ story_likes' # story_likes =>
          /\ Len(story_likes') = Len(story_likes) + 1
          /\ SubSeq(story_likes', 1, Len(story_likes)) = story_likes

\* C11: in every state any interleaving of like and unlike requests reaches
\* (each write transaction being one atomic step), for each story the change of
\* likes_count since the initial state is the number of appended events with
\* state = true minus the number of appended events with state = false; events
\* are only ever appended, and a request (a step of a request) that appends no
\* event changes no counter.
C11_CountersMatchEvents ==
    /\ [](CountersFollowEvents /\ NoEventNoChange)
    /\ [][StepKeepsCounters]_vars

\* two overlapping requests have both written, the story has like and unlike
\* events, and a third request, overlapping neither, has answered 201 without
\* writing
C11_Witness ==
    \E s \in DOMAIN stories :
        /\ Appended(s, TRUE) # {} /\ Appended(s, FALSE) # {}
        /\ \E i, j, k \in 1..Len(hist) :
              /\ i < j
              /\ hist[i].id = s /\ hist[j].id = s /\ hist[k].id = s
              /\ ~hist[i].solo /\ ~hist[j].solo
              /\ hist[i].wrote /\ hist[j].wrote
              /\ hist[i].prior = None /\ hist[j].prior = None
              /\ hist[k].solo /\ hist[k].status = 201 /\ ~hist[k].wrote

====
